---- MODULE Spec2Model ----
(***************************************************************************)
(* house-duties: bills, their monthly payments, the overdue sweep, the     *)
(* monthly summary and the three-month comparison, modelled from           *)
(* src/src/services/billService.ts, src/src/services/paymentService.ts,    *)
(* the payment commands (src/unnamed/part_003) and the database schema     *)
(* (src/unnamed/part_000).                                                 *)
(*                                                                         *)
(* A Date is a local-time instant [day, ms]: the day number counted from   *)
(* 1970-01-01 and the millisecond inside that day.  Amounts are binary     *)
(* floating-point numbers (DOUBLE PRECISION in the schema, number in the   *)
(* services): an integer rounded to FloatPrecision significant bits,       *)
(* counting quarters of a cent (0.0025).                                   *)
(***************************************************************************)
EXTENDS Integers, Sequences, FiniteSets, TLC

\* ---------------------------------------------------------------- bounds
MaxBills == 1
MaxPayments == 2
MaxStored == 3
MaxReads == 8
FloatPrecision == 2

\* null, for a nullable column or result
Null == [null |-> TRUE]

\* ------------------------------------------------------------ Date (local)
IsLeapYear(y) == (y % 4 = 0 /\ y % 100 # 0) \/ y % 400 = 0

DaysInMonth(y, m) ==
    IF m = 2 THEN (IF IsLeapYear(y) THEN 29 ELSE 28)
    ELSE IF m \in {4, 6, 9, 11} THEN 30 ELSE 31

\* Day number of January 1st of year y (ECMAScript DayFromYear).
DayFromYear(y) ==
    365 * (y - 1970) + ((y - 1969) \div 4) - ((y - 1901) \div 100)
        + ((y - 1601) \div 400)

RECURSIVE DaysBeforeMonth(_, _)
DaysBeforeMonth(y, m) ==
    IF m = 1 THEN 0 ELSE DaysBeforeMonth(y, m - 1) + DaysInMonth(y, m - 1)

\* new Date(year, monthIndex, date).  monthIndex is 0-based and may be 12;
\* a date outside the month is not rejected: it carries into the
\* neighbouring month (ECMAScript MakeDay).
MakeDay(year, monthIndex, date) ==
    LET y == year + (monthIndex \div 12)
        m == (monthIndex % 12) + 1
    IN  DayFromYear(y) + DaysBeforeMonth(y, m) + date - 1

\* new Date(year, monthIndex, date, hours, minutes, seconds)
NewDate(year, monthIndex, date, hours, minutes, seconds) ==
    [day |-> MakeDay(year, monthIndex, date),
     ms  |-> ((hours * 60 + minutes) * 60 + seconds) * 1000]

DateLt(a, b) == a.day < b.day \/ (a.day = b.day /\ a.ms < b.ms)
DateLte(a, b) == a = b \/ DateLt(a, b)
DateGte(a, b) == DateLte(b, a)

\* --------------------------------------------------- number (binary float)
RECURSIVE Quantum(_, _)
\* The spacing of the representable numbers around a >= 0.
Quantum(a, q) ==
    IF a \div q < 2 ^ FloatPrecision THEN q ELSE Quantum(a, 2 * q)

\* Round to nearest, ties to even.
RoundNat(a) ==
    LET q   == Quantum(a, 1)
        lo  == (a \div q) * q
        rem == a - lo
    IN  IF 2 * rem < q THEN lo
        ELSE IF 2 * rem > q THEN lo + q
        ELSE IF (a \div q) % 2 = 0 THEN lo ELSE lo + q

FRound(x) == IF x < 0 THEN 0 - RoundNat(0 - x) ELSE RoundNat(x)

\* a + b and a - b on numbers
FAdd(a, b) == FRound(a + b)
FSub(a, b) == FRound(a - b)

\* ------------------------------------------------------------------ inputs
BillIds == 1 .. MaxBills
PaymentIds == 1 .. MaxPayments
Statuses == {"PENDING", "PAID", "OVERDUE"}
Amounts == {3, 4}
DueDays == {15, 31}
\* (year, month) pairs given to generateMonthlyPayments
Periods == {<<2024, 4>>}
\* the values new Date() returns as time passes
ClockInstants == {NewDate(2024, 3, 15, 0, 0, 0), NewDate(2024, 4, 1, 0, 0, 0)}
\* due dates entered by hand
DueDateInputs == {NewDate(2024, 3, 15, 0, 0, 0)}
\* paid dates entered by hand
PaidDateInputs == {NewDate(2024, 3, 15, 0, 0, 0)}

VARIABLES bills, payments, nextBillId, nextPaymentId, now, last

vars == <<bills, payments, nextBillId, nextPaymentId, now, last>>

Init ==
    /\ bills = {}
    /\ payments = {}
    /\ nextBillId = 1
    /\ nextPaymentId = 1
    /\ now = NewDate(2024, 3, 15, 0, 0, 0)
    /\ last = [op |-> "init"]

\* ------------------------------------------------------------- persistence
\* prisma.<model>.update({ where: { id }, data: input }): only the fields
\* present in input are written.
Given(input, field) == field \in DOMAIN input

\* payments.billId REFERENCES bills(id): an insert naming no bill is refused.
ForeignKeyOk(bs, billId) == \E b \in bs : b.id = billId

\* (mutant) a foreign key without the cascade
CascadeDeleteNone(ps, billId) == ps

\* ... ON DELETE CASCADE: the bill's payments go with it.
CascadeDelete(ps, billId) == {p \in ps : p.billId # billId}

\* ----------------------------------------------------------- BillService
CreateBill(amount, dueDay) ==
    /\ nextBillId <= MaxBills
    /\ bills' = bills \cup
           {[id |-> nextBillId, amount |-> amount, dueDay |-> dueDay,
             active |-> TRUE]}
    /\ nextBillId' = nextBillId + 1
    /\ last' = [op |-> "createBill", ok |-> TRUE]
    /\ UNCHANGED <<payments, nextPaymentId, now>>

ApplyBillUpdate(b, input) ==
    [id     |-> b.id,
     amount |-> IF Given(input, "amount") THEN input.amount ELSE b.amount,
     dueDay |-> IF Given(input, "dueDay") THEN input.dueDay ELSE b.dueDay,
     active |-> IF Given(input, "active") THEN input.active ELSE b.active]

UpdateBillRows(bs, id, input) ==
    {IF b.id = id THEN ApplyBillUpdate(b, input) ELSE b : b \in bs}

\* (mutant) a new amount carried over to the bill's payments
UpdateBillPropagating(id, input) ==
    /\ IF \E b \in bills : b.id = id
       THEN /\ bills' = UpdateBillRows(bills, id, input)
            /\ payments' =
                   {IF p.billId = id /\ Given(input, "amount")
                    THEN [p EXCEPT !.amount = input.amount] ELSE p : p \in payments}
            /\ last' = [op |-> "updateBill", ok |-> TRUE, id |-> id]
       ELSE /\ UNCHANGED <<bills, payments>>
            /\ last' = [op |-> "updateBill", ok |-> FALSE, id |-> id]
    /\ UNCHANGED <<nextBillId, nextPaymentId, now>>

UpdateBill(id, input) ==
    /\ IF \E b \in bills : b.id = id
       THEN /\ bills' = UpdateBillRows(bills, id, input)
            /\ last' = [op |-> "updateBill", ok |-> TRUE, id |-> id]
       ELSE /\ bills' = bills
            /\ last' = [op |-> "updateBill", ok |-> FALSE, id |-> id]
    /\ UNCHANGED <<payments, nextBillId, nextPaymentId, now>>

DeleteBill(id) ==
    /\ IF \E b \in bills : b.id = id
       THEN /\ bills' = {b \in bills : b.id # id}
            /\ payments' = CascadeDelete(payments, id)
            /\ last' = [op |-> "deleteBill", ok |-> TRUE, id |-> id,
                        cascaded |-> Cardinality(payments)
                            - Cardinality(CascadeDelete(payments, id))]
       ELSE /\ UNCHANGED <<bills, payments>>
            /\ last' = [op |-> "deleteBill", ok |-> FALSE, id |-> id]
    /\ UNCHANGED <<nextBillId, nextPaymentId, now>>

ToggleBillStatus(id) ==
    /\ IF \E b \in bills : b.id = id
       THEN LET bill == CHOOSE b \in bills : b.id = id
            IN  /\ bills' = UpdateBillRows(bills, id, [active |-> ~bill.active])
                /\ last' = [op |-> "toggleBillStatus", ok |-> TRUE, id |-> id]
       ELSE /\ bills' = bills
            /\ last' = [op |-> "toggleBillStatus", ok |-> FALSE, id |-> id]
    /\ UNCHANGED <<payments, nextBillId, nextPaymentId, now>>

\* -------------------------------------------------------- PaymentService
\* prisma.payment.create({ data: input }): status defaults to PENDING and
\* paidDate to NULL.
NewPayment(id, billId, amount, dueDate) ==
    [id |-> id, billId |-> billId, amount |-> amount, status |-> "PENDING",
     dueDate |-> dueDate, paidDate |-> Null]

CreatePayment(billId, amount, dueDate) ==
    /\ nextPaymentId <= MaxPayments
    /\ IF ForeignKeyOk(bills, billId)
       THEN /\ payments' = payments \cup
                   {NewPayment(nextPaymentId, billId, amount, dueDate)}
            /\ nextPaymentId' = nextPaymentId + 1
            /\ last' = [op |-> "createPayment", ok |-> TRUE, id |-> billId]
       ELSE /\ UNCHANGED <<payments, nextPaymentId>>
            /\ last' = [op |-> "createPayment", ok |-> FALSE, id |-> billId]
    /\ UNCHANGED <<bills, nextBillId, now>>

ApplyPaymentUpdate(p, input) ==
    [id       |-> p.id,
     billId   |-> p.billId,
     amount   |-> IF Given(input, "amount") THEN input.amount ELSE p.amount,
     status   |-> IF Given(input, "status") THEN input.status ELSE p.status,
     dueDate  |-> p.dueDate,
     paidDate |-> IF Given(input, "paidDate") THEN input.paidDate
                  ELSE p.paidDate]

UpdatePaymentRows(ps, id, input) ==
    {IF p.id = id THEN ApplyPaymentUpdate(p, input) ELSE p : p \in ps}

UpdatePayment(id, input) ==
    /\ IF \E p \in payments : p.id = id
       THEN /\ payments' = UpdatePaymentRows(payments, id, input)
            /\ last' = [op |-> "updatePayment", ok |-> TRUE, id |-> id]
       ELSE /\ payments' = payments
            /\ last' = [op |-> "updatePayment", ok |-> FALSE, id |-> id]
    /\ UNCHANGED <<bills, nextBillId, nextPaymentId, now>>

\* paidDate || new Date()
MarkAsPaidInput(paidDate, t) ==
    [status |-> "PAID", paidDate |-> IF paidDate # Null THEN paidDate ELSE t]

MarkAsPaid(id, paidDate) ==
    /\ IF \E p \in payments : p.id = id
       THEN /\ payments' = UpdatePaymentRows(payments, id,
                                             MarkAsPaidInput(paidDate, now))
            /\ last' = [op |-> "markAsPaid", ok |-> TRUE, id |-> id]
       ELSE /\ payments' = payments
            /\ last' = [op |-> "markAsPaid", ok |-> FALSE, id |-> id]
    /\ UNCHANGED <<bills, nextBillId, nextPaymentId, now>>

\* (mutant) deleteMany: nothing thrown when no row matches
DeletePaymentMany(id) ==
    /\ payments' = {p \in payments : p.id # id}
    /\ last' = [op |-> "deletePayment", ok |-> TRUE, id |-> id]
    /\ UNCHANGED <<bills, nextBillId, nextPaymentId, now>>

DeletePayment(id) ==
    /\ IF \E p \in payments : p.id = id
       THEN /\ payments' = {p \in payments : p.id # id}
            /\ last' = [op |-> "deletePayment", ok |-> TRUE, id |-> id]
       ELSE /\ payments' = payments
            /\ last' = [op |-> "deletePayment", ok |-> FALSE, id |-> id]
    /\ UNCHANGED <<bills, nextBillId, nextPaymentId, now>>

\* (mutant) the window of the month after: month taken as a 0-based index
ExistingPaymentsNextMonth(ps, billId, year, month) ==
    {p \in ps : /\ p.billId = billId
                /\ DateGte(p.dueDate, NewDate(year, month, 1, 0, 0, 0))
                /\ DateLt(p.dueDate, NewDate(year, month + 1, 1, 0, 0, 0))}

\* (mutant) the billId left out of the where clause
ExistingPaymentsAnyBill(ps, billId, year, month) ==
    {p \in ps : /\ DateGte(p.dueDate, NewDate(year, month - 1, 1, 0, 0, 0))
                /\ DateLt(p.dueDate, NewDate(year, month, 1, 0, 0, 0))}

\* gte: new Date(year, month - 1, 1)
WindowStart(year, month) == NewDate(year, month - 1, 1, 0, 0, 0)

\* lt: new Date(year, month, 1)
WindowEnd(year, month) == NewDate(year, month, 1, 0, 0, 0)

\* prisma.payment.findFirst({ where: { billId, dueDate: { gte, lt } } })
ExistingPayments(ps, billId, year, month) ==
    {p \in ps : /\ p.billId = billId
                /\ DateGte(p.dueDate, WindowStart(year, month))
                /\ DateLt(p.dueDate, WindowEnd(year, month))}

\* new Date(year, month - 1, bill.dueDay)
GeneratedDueDate(year, month, dueDay) == NewDate(year, month - 1, dueDay, 0, 0, 0)

\* prisma.bill.findMany({ where: { active: true } }), in insertion order
RECURSIVE SortById(_)
SortById(S) ==
    IF S = {} THEN <<>>
    ELSE LET first == CHOOSE x \in S : \A y \in S : x.id <= y.id
         IN  <<first>> \o SortById(S \ {first})

\* (mutant) the where clause left out
AllBills(bs) == SortById(bs)

ActiveBills(bs) == SortById({b \in bs : b.active})

\* (mutant) an upsert: the month's existing payment takes the bill's amount
RECURSIVE GenerateLoopUpsert(_, _, _, _, _, _)
GenerateLoopUpsert(billSeq, ps, nextId, created, year, month) ==
    IF billSeq = <<>>
    THEN [payments |-> ps, nextId |-> nextId, created |-> created]
    ELSE LET bill == Head(billSeq)
         IN  IF ExistingPayments(ps, bill.id, year, month) = {}
             THEN GenerateLoopUpsert(Tail(billSeq),
                      ps \cup {NewPayment(nextId, bill.id, bill.amount,
                                   GeneratedDueDate(year, month, bill.dueDay))},
                      nextId + 1, Append(created, nextId), year, month)
             ELSE GenerateLoopUpsert(Tail(billSeq),
                      {IF p \in ExistingPayments(ps, bill.id, year, month)
                       THEN [p EXCEPT !.amount = bill.amount] ELSE p : p \in ps},
                      nextId, created, year, month)

\* for (const bill of bills) { ... }
RECURSIVE GenerateLoop(_, _, _, _, _, _)
GenerateLoop(billSeq, ps, nextId, created, year, month) ==
    IF billSeq = <<>>
    THEN [payments |-> ps, nextId |-> nextId, created |-> created]
    ELSE LET bill == Head(billSeq)
         IN  IF ExistingPayments(ps, bill.id, year, month) = {}
             THEN GenerateLoop(Tail(billSeq),
                      ps \cup {NewPayment(nextId, bill.id, bill.amount,
                                   GeneratedDueDate(year, month, bill.dueDay))},
                      nextId + 1, Append(created, nextId), year, month)
             ELSE GenerateLoop(Tail(billSeq), ps, nextId, created, year, month)

GenerateMonthlyPayments(year, month) ==
    LET r == GenerateLoop(ActiveBills(bills), payments, nextPaymentId, <<>>,
                          year, month)
    IN  /\ r.nextId - 1 <= MaxPayments
        /\ payments' = r.payments
        /\ nextPaymentId' = r.nextId
        /\ last' = [op |-> "generateMonthlyPayments", ok |-> TRUE,
                    year |-> year, month |-> month, ret |-> r.created]
        /\ UNCHANGED <<bills, nextBillId, now>>

\* (mutant) lte in place of lt
SweepWhereLte(p, t) == p.status = "PENDING" /\ DateLte(p.dueDate, t)

\* (mutant) the status filter left out
SweepWhereAnyStatus(p, t) == DateLt(p.dueDate, t)

\* where: { status: 'PENDING', dueDate: { lt: new Date() } }
SweepWhere(p, t) == p.status = "PENDING" /\ DateLt(p.dueDate, t)

\* prisma.payment.updateMany({ where, data: { status: 'OVERDUE' } })
SweepRows(ps, t) ==
    {IF SweepWhere(p, t) THEN ApplyPaymentUpdate(p, [status |-> "OVERDUE"])
     ELSE p : p \in ps}

\* result.count
SweepCount(ps, t) == Cardinality({p \in ps : SweepWhere(p, t)})

UpdateOverduePayments ==
    /\ payments' = SweepRows(payments, now)
    /\ last' = [op |-> "updateOverduePayments", ok |-> TRUE,
                ret |-> SweepCount(payments, now)]
    /\ UNCHANGED <<bills, nextBillId, nextPaymentId, now>>

\* time passes between two operations
Tick ==
    /\ \E t \in ClockInstants : DateLt(now, t) /\ now' = t
    /\ last' = [op |-> "tick"]
    /\ UNCHANGED <<bills, payments, nextBillId, nextPaymentId>>

\* ------------------------------------------------------------ the inputs
BillUpdateInputs ==
    {[amount |-> a] : a \in Amounts} \cup {[dueDay |-> d] : d \in DueDays}
        \cup {[active |-> x] : x \in BOOLEAN}

\* the update-payment command: any of amount, status and paidDate
PaymentUpdateInputs ==
    {[amount |-> a] : a \in Amounts}
        \cup {[status |-> s] : s \in Statuses}
        \cup {[paidDate |-> d] : d \in PaidDateInputs}
        \cup {[status |-> s, paidDate |-> d] : s \in Statuses, d \in PaidDateInputs}

Next ==
    \/ \E a \in Amounts, d \in DueDays : CreateBill(a, d)
    \/ \E id \in BillIds, input \in BillUpdateInputs : UpdateBill(id, input)
    \/ \E id \in BillIds : DeleteBill(id)
    \/ \E id \in BillIds : ToggleBillStatus(id)
    \/ \E b \in BillIds, a \in Amounts, d \in DueDateInputs : CreatePayment(b, a, d)
    \/ \E id \in PaymentIds, input \in PaymentUpdateInputs : UpdatePayment(id, input)
    \/ \E id \in PaymentIds, d \in PaidDateInputs \cup {Null} : MarkAsPaid(id, d)
    \/ \E id \in PaymentIds : DeletePayment(id)
    \/ \E ym \in Periods : GenerateMonthlyPayments(ym[1], ym[2])
    \/ UpdateOverduePayments
    \/ Tick

Spec == Init /\ [][Next]_vars

\* the operations that create and delete rows
NextRows ==
    \/ \E a \in Amounts, d \in DueDays : CreateBill(a, d)
    \/ \E id \in BillIds : DeleteBill(id)
    \/ \E b \in BillIds, a \in Amounts, d \in DueDateInputs : CreatePayment(b, a, d)
    \/ \E id \in PaymentIds : DeletePayment(id)
    \/ \E ym \in Periods : GenerateMonthlyPayments(ym[1], ym[2])

SpecRows == Init /\ [][NextRows]_vars

\* the operations that are given the id of a bill or of a payment
NextById ==
    \/ CreateBill(3, 15)
    \/ \E id \in BillIds : UpdateBill(id, [amount |-> 4])
    \/ \E id \in BillIds : DeleteBill(id)
    \/ \E id \in BillIds : ToggleBillStatus(id)
    \/ \E b \in BillIds, d \in DueDateInputs : CreatePayment(b, 3, d)
    \/ \E id \in PaymentIds : UpdatePayment(id, [amount |-> 4])
    \/ \E id \in PaymentIds : MarkAsPaid(id, Null)
    \/ \E id \in PaymentIds : DeletePayment(id)

SpecById == Init /\ [][NextById]_vars

\* bills kept up to date and their payments generated
NextGenerate ==
    \/ \E a \in Amounts, d \in DueDays : CreateBill(a, d)
    \/ \E id \in BillIds, input \in BillUpdateInputs : UpdateBill(id, input)
    \/ \E id \in BillIds : ToggleBillStatus(id)
    \/ \E ym \in Periods : GenerateMonthlyPayments(ym[1], ym[2])

SpecGenerate == Init /\ [][NextGenerate]_vars

\* --------------------------------------------------------------- queries
\* getPaymentsByMonth: startDate = new Date(year, month - 1, 1),
\* endDate = new Date(year, month, 0, 23, 59, 59), dueDate gte / lte
PaymentsByMonth(ps, year, month) ==
    {p \in ps : /\ DateGte(p.dueDate, NewDate(year, month - 1, 1, 0, 0, 0))
                /\ DateLte(p.dueDate, NewDate(year, month, 0, 23, 59, 59))}

\* orderBy: { dueDate: 'asc' }: every order the database may return, the
\* rows with equal dueDate in any order
OrderedByDueDate(S) ==
    {s \in [1 .. Cardinality(S) -> S] :
        /\ \A i, j \in 1 .. Cardinality(S) : i # j => s[i] # s[j]
        /\ \A i, j \in 1 .. Cardinality(S) :
               i < j => DateLte(s[i].dueDate, s[j].dueDate)}

\* the body of payments.forEach(...)
AddToBucket(summary, payment) ==
    [total   |-> FAdd(summary.total, payment.amount),
     paid    |-> IF payment.status = "PAID"
                 THEN FAdd(summary.paid, payment.amount) ELSE summary.paid,
     pending |-> IF payment.status = "PENDING"
                 THEN FAdd(summary.pending, payment.amount)
                 ELSE summary.pending,
     overdue |-> IF payment.status = "OVERDUE"
                 THEN FAdd(summary.overdue, payment.amount)
                 ELSE summary.overdue]

RECURSIVE Accumulate(_, _)
Accumulate(rows, summary) ==
    IF rows = <<>> THEN summary
    ELSE Accumulate(Tail(rows), AddToBucket(summary, Head(rows)))

ZeroSummary == [total |-> 0, paid |-> 0, pending |-> 0, overdue |-> 0]

\* the summaries getPaymentsSummary(year, month) may return
PaymentsSummaries(ps, year, month) ==
    {Accumulate(rows, ZeroSummary) :
        rows \in OrderedByDueDate(PaymentsByMonth(ps, year, month))}

\* (mutant) the sweep run by the query itself
GetPaymentsSummarySweeping(year, month) ==
    /\ payments' = SweepRows(payments, now)
    /\ \E summary \in PaymentsSummaries(SweepRows(payments, now), year, month) :
           last' = [op |-> "getPaymentsSummary", ok |-> TRUE,
                    year |-> year, month |-> month, ret |-> summary]
    /\ UNCHANGED <<bills, nextBillId, nextPaymentId, now>>

GetPaymentsSummary(year, month) ==
    /\ \E summary \in PaymentsSummaries(payments, year, month) :
           last' = [op |-> "getPaymentsSummary", ok |-> TRUE,
                    year |-> year, month |-> month, ret |-> summary]
    /\ UNCHANGED <<bills, payments, nextBillId, nextPaymentId, now>>

\* (mutant) the month wrapped, the year kept
RECURSIVE HandleYearBoundaryKeepsYear(_, _)
HandleYearBoundaryKeepsYear(targetYear, targetMonth) ==
    IF targetMonth < 1 THEN HandleYearBoundaryKeepsYear(targetYear, targetMonth + 12)
    ELSE [year |-> targetYear, month |-> targetMonth]

\* while (targetMonth < 1) { targetMonth += 12; targetYear -= 1; }
RECURSIVE HandleYearBoundary(_, _)
HandleYearBoundary(targetYear, targetMonth) ==
    IF targetMonth < 1 THEN HandleYearBoundary(targetYear - 1, targetMonth + 12)
    ELSE [year |-> targetYear, month |-> targetMonth]

\* for (let i = count - 1; i >= 0; i--) months.push(...)
CalculatePreviousMonths(year, month, count) ==
    [k \in 1 .. count |-> HandleYearBoundary(year, month - (count - k))]

Abs(x) == IF x < 0 THEN 0 - x ELSE x

\* the 0.01 of Math.abs(change) < 0.01, in quarters of a cent
StableEpsilon == 4

\* (change / previousValue) * 100, kept as the exact quotient num / den
Percentage(change, previousValue) ==
    [num |-> change * 100, den |-> previousValue]

\* (mutant) the change taken against the oldest month
CreateMetricFromOldest(metricName, values) ==
    LET previousValue == values[1]
        currentValue  == values[3]
        change        == FSub(currentValue, previousValue)
    IN  [metricName |-> metricName,
         values |-> values,
         change |-> change,
         percentageChange |-> IF previousValue # 0
                              THEN Percentage(change, previousValue) ELSE Null,
         trend |-> IF Abs(change) < StableEpsilon THEN "stable"
                   ELSE IF change > 0 THEN "up" ELSE "down"]

\* (mutant) the trend decided without the epsilon
CreateMetricNoEpsilon(metricName, values) ==
    LET previousValue == values[2]
        currentValue  == values[3]
        change        == FSub(currentValue, previousValue)
    IN  [metricName |-> metricName,
         values |-> values,
         change |-> change,
         percentageChange |-> IF previousValue # 0
                              THEN Percentage(change, previousValue) ELSE Null,
         trend |-> IF change = 0 THEN "stable"
                   ELSE IF change > 0 THEN "up" ELSE "down"]

\* createMetric: values[1] and values[2] of the code's 0-based array
CreateMetric(metricName, values) ==
    LET previousValue == values[2]
        currentValue  == values[3]
        change        == FSub(currentValue, previousValue)
    IN  [metricName |-> metricName,
         values |-> values,
         change |-> change,
         percentageChange |-> IF previousValue # 0
                              THEN Percentage(change, previousValue) ELSE Null,
         trend |-> IF Abs(change) < StableEpsilon THEN "stable"
                   ELSE IF change > 0 THEN "up" ELSE "down"]

CalculateComparisonMetrics(summaries) ==
    [total   |-> CreateMetric("Total", [k \in 1 .. 3 |-> summaries[k].total]),
     paid    |-> CreateMetric("Paid", [k \in 1 .. 3 |-> summaries[k].paid]),
     pending |-> CreateMetric("Pending", [k \in 1 .. 3 |-> summaries[k].pending]),
     overdue |-> CreateMetric("Overdue", [k \in 1 .. 3 |-> summaries[k].overdue])]

\* { year, month, ...summary } (the month label is presentation)
MonthSummary(ym, summary) ==
    [year |-> ym.year, month |-> ym.month, total |-> summary.total,
     paid |-> summary.paid, pending |-> summary.pending,
     overdue |-> summary.overdue]

GetPaymentComparison(year, month) ==
    LET months == CalculatePreviousMonths(year, month, 3)
    IN  /\ \E s1 \in PaymentsSummaries(payments, months[1].year, months[1].month),
              s2 \in PaymentsSummaries(payments, months[2].year, months[2].month),
              s3 \in PaymentsSummaries(payments, months[3].year, months[3].month) :
               LET summaries == <<MonthSummary(months[1], s1),
                                  MonthSummary(months[2], s2),
                                  MonthSummary(months[3], s3)>>
               IN  last' = [op |-> "getPaymentComparison", ok |-> TRUE,
                            year |-> year, month |-> month,
                            ret |-> [months  |-> summaries,
                                     metrics |-> CalculateComparisonMetrics(summaries)]]
        /\ UNCHANGED <<bills, payments, nextBillId, nextPaymentId, now>>

\* ----------------------------------------------------- the bill commands
\* validate: (input) => input > 0
AmountAccepted(amount) == amount > 0

\* (mutant) day 0 let through
DueDayAcceptedFromZero(dueDay) == dueDay >= 0 /\ dueDay <= 31

\* validate: (input) => input >= 1 && input <= 31
DueDayAccepted(dueDay) == dueDay >= 1 /\ dueDay <= 31

\* what is typed at the "Amount:" and "Due day of month (1-31):" prompts
AmountAnswers == {0 - 3, 0, 3, 4, 6}
DueDayAnswers == {0, 1, 15, 28, 31, 32}

\* the add-bill command: a prompt whose validate refuses keeps asking, and
\* billService.createBill is called with accepted answers only
AddBill(amount, dueDay) ==
    IF AmountAccepted(amount) /\ DueDayAccepted(dueDay)
    THEN CreateBill(amount, dueDay)
    ELSE /\ last' = [op |-> "addBill", ok |-> FALSE, called |-> FALSE]
         /\ UNCHANGED <<bills, payments, nextBillId, nextPaymentId, now>>

\* the answers the update-bill command may collect: the fields ticked in
\* the checkbox, one answer each
UpdateBillAnswers ==
    {[amount |-> a] : a \in AmountAnswers}
        \cup {[dueDay |-> d] : d \in DueDayAnswers}
        \cup {[active |-> x] : x \in BOOLEAN}
        \cup {[amount |-> a, dueDay |-> d] : a \in AmountAnswers, d \in DueDayAnswers}

\* the update-bill command: the bill is picked from the list of stored
\* bills, each ticked field is asked with its validate
UpdateBillCommand(id, updates) ==
    /\ \E b \in bills : b.id = id
    /\ IF /\ Given(updates, "amount") => AmountAccepted(updates.amount)
          /\ Given(updates, "dueDay") => DueDayAccepted(updates.dueDay)
       THEN UpdateBill(id, updates)
       ELSE /\ last' = [op |-> "updateBillCommand", ok |-> FALSE,
                        called |-> FALSE]
            /\ UNCHANGED <<bills, payments, nextBillId, nextPaymentId, now>>

\* the bills as the bill commands keep them
NextBills ==
    \/ \E a \in AmountAnswers, d \in DueDayAnswers : AddBill(a, d)
    \/ \E id \in BillIds, updates \in UpdateBillAnswers : UpdateBillCommand(id, updates)
    \/ \E id \in BillIds : ToggleBillStatus(id)
    \/ \E id \in BillIds : DeleteBill(id)

SpecBills == Init /\ [][NextBills]_vars

\* -------------------------------------------------- the payment commands
Digits == {"0", "1", "2", "3", "4", "5", "6", "7", "8", "9"}

DigitValue(c) ==
    CASE c = "0" -> 0 [] c = "1" -> 1 [] c = "2" -> 2 [] c = "3" -> 3
      [] c = "4" -> 4 [] c = "5" -> 5 [] c = "6" -> 6 [] c = "7" -> 7
      [] c = "8" -> 8 [] c = "9" -> 9

\* /^\d{4}-\d{2}$/.test(input), the input a sequence of characters
MonthYearFormatOk(input) ==
    /\ Len(input) = 7
    /\ \A i \in {1, 2, 3, 4, 6, 7} : input[i] \in Digits
    /\ input[5] = "-"

\* Number("0013") = 13
RECURSIVE ToNumber(_)
ToNumber(chars) ==
    IF chars = <<>> THEN 0
    ELSE 10 * ToNumber(SubSeq(chars, 1, Len(chars) - 1))
             + DigitValue(chars[Len(chars)])

\* const [year, month] = monthYear.split('-').map(Number)
ParseMonthYear(input) ==
    [year  |-> ToNumber(SubSeq(input, 1, 4)),
     month |-> ToNumber(SubSeq(input, 6, 7))]

\* what is typed at the "Enter month and year (YYYY-MM):" prompt
MonthYearInputs ==
    {<<"2", "0", "2", "4", "-", "0", "4">>,
     <<"2", "0", "2", "4", "-", "0", "5">>,
     <<"2", "0", "2", "4", "-", "1", "3">>,
     <<"2", "0", "2", "4", "-", "0", "0">>,
     <<"2", "0", "2", "4", "-", "4">>}

\* the generate-payments command: the prompt keeps asking until its validate
\* accepts the input, then generateMonthlyPayments(year, month) is called
GenerateMonthlyPaymentsCommand(input) ==
    IF MonthYearFormatOk(input)
    THEN LET ym == ParseMonthYear(input)
             r  == GenerateLoop(ActiveBills(bills), payments, nextPaymentId,
                                <<>>, ym.year, ym.month)
         IN  /\ r.nextId - 1 <= MaxPayments
             /\ payments' = r.payments
             /\ nextPaymentId' = r.nextId
             /\ last' = [op |-> "generateMonthlyPaymentsCommand", ok |-> TRUE,
                         called |-> TRUE, year |-> ym.year, month |-> ym.month,
                         ret |-> r.created]
             /\ UNCHANGED <<bills, nextBillId, now>>
    ELSE /\ last' = [op |-> "generateMonthlyPaymentsCommand", ok |-> FALSE,
                     called |-> FALSE]
         /\ UNCHANGED <<bills, payments, nextBillId, nextPaymentId, now>>

\* (mutant) the summary computed before the sweep
ShowMonthlySummarySweepLast(input) ==
    IF MonthYearFormatOk(input)
    THEN LET ym    == ParseMonthYear(input)
             swept == SweepRows(payments, now)
         IN  /\ payments' = swept
             /\ \E t \in {now} \cup {c \in ClockInstants : DateLt(now, c)} :
                    now' = t
             /\ \E summary \in PaymentsSummaries(payments, ym.year, ym.month) :
                    last' = [op |-> "showMonthlySummary", ok |-> TRUE,
                             called |-> TRUE, year |-> ym.year,
                             month |-> ym.month, sweptAt |-> now,
                             ret |-> summary,
                             shown |-> PaymentsByMonth(payments, ym.year, ym.month)]
             /\ UNCHANGED <<bills, nextBillId, nextPaymentId>>
    ELSE /\ last' = [op |-> "showMonthlySummary", ok |-> FALSE,
                     called |-> FALSE]
         /\ UNCHANGED <<bills, payments, nextBillId, nextPaymentId, now>>

\* the monthly-summary command: await updateOverduePayments(), then await
\* getPaymentsSummary(year, month) and getPaymentsByMonth(year, month); the
\* clock may advance while the command runs
ShowMonthlySummary(input) ==
    IF MonthYearFormatOk(input)
    THEN LET ym    == ParseMonthYear(input)
             swept == SweepRows(payments, now)
         IN  /\ payments' = swept
             /\ \E t \in {now} \cup {c \in ClockInstants : DateLt(now, c)} :
                    now' = t
             /\ \E summary \in PaymentsSummaries(swept, ym.year, ym.month) :
                    last' = [op |-> "showMonthlySummary", ok |-> TRUE,
                             called |-> TRUE, year |-> ym.year,
                             month |-> ym.month, sweptAt |-> now,
                             ret |-> summary,
                             shown |-> PaymentsByMonth(swept, ym.year, ym.month)]
             /\ UNCHANGED <<bills, nextBillId, nextPaymentId>>
    ELSE /\ last' = [op |-> "showMonthlySummary", ok |-> FALSE,
                     called |-> FALSE]
         /\ UNCHANGED <<bills, payments, nextBillId, nextPaymentId, now>>

\* ------------------------------------------------------------- getVersion
\* package.json as a sequence of tokens
LBrace == [punct |-> "{"]
RBrace == [punct |-> "}"]
Colon == [punct |-> ":"]
Comma == [punct |-> ","]
Key(k) == [key |-> k]
Str(x) == [string |-> x]
Num(n) == [number |-> n]
Arr(a) == [array |-> a]
Word(w) == [word |-> w]
Undefined == [undefined |-> TRUE]

IsKey(t) == DOMAIN t = {"key"}
IsValue(t) == DOMAIN t \in {{"string"}, {"number"}, {"array"}, {"null"}}

\* key : value (, key : value)*
RECURSIVE MembersOk(_)
MembersOk(m) ==
    /\ Len(m) >= 3
    /\ IsKey(m[1]) /\ m[2] = Colon /\ IsValue(m[3])
    /\ \/ Len(m) = 3
       \/ Len(m) > 4 /\ m[4] = Comma /\ MembersOk(SubSeq(m, 5, Len(m)))

\* the value of the last member named k, undefined when there is none
RECURSIVE Member(_, _)
Member(m, k) ==
    IF Len(m) < 3 THEN Undefined
    ELSE LET rest == Member(SubSeq(m, 5, Len(m)), k)
         IN  IF rest # Undefined THEN rest
             ELSE IF m[1] = Key(k) THEN m[3] ELSE Undefined

\* JSON.parse(text) of an object: [ok |-> FALSE] stands for the SyntaxError
JsonParse(text) ==
    IF /\ Len(text) >= 2 /\ text[1] = LBrace /\ text[Len(text)] = RBrace
       /\ (Len(text) = 2 \/ MembersOk(SubSeq(text, 2, Len(text) - 1)))
    THEN [ok |-> TRUE, members |-> SubSeq(text, 2, Len(text) - 1)]
    ELSE [ok |-> FALSE]

NameAndVersion ==
    <<LBrace, Key("name"), Colon, Str("house-duties"), Comma,
      Key("version"), Colon, Str("1.0.0"), RBrace>>
VersionOnly == <<LBrace, Key("version"), Colon, Str("2.3.4"), RBrace>>
NotJson == <<Word("not"), Word("json"), Word("at"), Word("all")>>
IncompleteJson == <<LBrace, Key("version"), Colon, Str("2.3.4")>>
TrailingComma == <<LBrace, Key("version"), Colon, Str("2.3.4"), Comma, RBrace>>
EmptyText == <<>>
NoVersion == <<LBrace, Key("name"), Colon, Str("house-duties"), RBrace>>
NullVersion == <<LBrace, Key("version"), Colon, Null, RBrace>>
EmptyVersion == <<LBrace, Key("version"), Colon, Str(""), RBrace>>
EmptyObject == <<LBrace, RBrace>>
NumberVersion == <<LBrace, Key("version"), Colon, Num(1), RBrace>>
ArrayVersion == <<LBrace, Key("version"), Colon, Arr(<<1, 0, 0>>), RBrace>>

\* what fs.readFileSync(path, 'utf-8') does at one call: it throws, or it
\* returns the text of the file
PackageJsonReads ==
    {[throws |-> e] : e \in {"ENOENT", "EACCES", "Error"}}
        \cup {[text |-> t] : t \in {NameAndVersion, VersionOnly, NotJson,
                  IncompleteJson, TrailingComma, EmptyText, NoVersion,
                  NullVersion, EmptyVersion, EmptyObject, NumberVersion,
                  ArrayVersion}}

\* try { return JSON.parse(readFileSync(...)).version } catch { return '1.0.0' }
VersionOf(read) ==
    IF DOMAIN read = {"throws"} THEN Str("1.0.0")
    ELSE LET parsed == JsonParse(read.text)
         IN  IF parsed.ok THEN Member(parsed.members, "version")
             ELSE Str("1.0.0")

\* the readFileSync calls counted so far
ReadsSoFar(l) == IF l.op = "getVersion" THEN l.reads ELSE 0

\* (mutant) the version kept from the first call
GetVersionCached(read) ==
    /\ ReadsSoFar(last) < MaxReads
    /\ last' = [op |-> "getVersion", ok |-> TRUE, read |-> read,
                ret |-> IF last.op = "getVersion" THEN last.ret
                        ELSE VersionOf(read),
                reads |-> ReadsSoFar(last) + 1]
    /\ UNCHANGED <<bills, payments, nextBillId, nextPaymentId, now>>

GetVersion(read) ==
    /\ ReadsSoFar(last) < MaxReads
    /\ last' = [op |-> "getVersion", ok |-> TRUE, read |-> read,
                ret |-> VersionOf(read), reads |-> ReadsSoFar(last) + 1]
    /\ UNCHANGED <<bills, payments, nextBillId, nextPaymentId, now>>

NextVersion == \E read \in PackageJsonReads : GetVersion(read)

SpecVersion == Init /\ [][NextVersion]_vars

\* -------------------------------------------- the queries on a stored set
\* due dates of the stored payments the queries are run on
StoredDueDates ==
    {NewDate(2024, 2, 15, 0, 0, 0), NewDate(2024, 3, 15, 0, 0, 0),
     NewDate(2024, 4, 1, 0, 0, 0)}

\* (year, month) pairs given to the queries
QueryPeriods == {<<2024, 4>>, <<2024, 5>>}

\* a stored payment: created by createPayment, then given its status and
\* paidDate by updatePayment
StoredPayment(id, row) ==
    [id |-> id, billId |-> 1, amount |-> row[1], status |-> row[2],
     dueDate |-> row[3], paidDate |-> row[4]]

\* payment ids are opaque: one numbering stands for every numbering of the
\* same rows
RowKey(row) ==
    ((row[3].day * 10 + row[1]) * 10
        + (CASE row[2] = "PENDING" -> 0 [] row[2] = "PAID" -> 1 [] OTHER -> 2)) * 2
        + (IF row[4] = Null THEN 0 ELSE 1)

\* a store of one bill and up to MaxStored payments of it, the paid dates
\* taken from paidDates, at time t
Stored(paidDates, t) ==
    /\ bills = {[id |-> 1, amount |-> 3, dueDay |-> 15, active |-> TRUE]}
    /\ \E n \in 0 .. MaxStored :
        \E rows \in [1 .. n -> Amounts \X Statuses \X StoredDueDates \X paidDates] :
            /\ \A i \in 1 .. n - 1 : RowKey(rows[i]) <= RowKey(rows[i + 1])
            /\ payments = {StoredPayment(i, rows[i]) : i \in 1 .. n}
            /\ nextPaymentId = n + 1
    /\ nextBillId = 2
    /\ now = t
    /\ last = [op |-> "init"]

InitStored == Stored({Null}, NewDate(2024, 3, 15, 0, 0, 0))

\* the sweep on a stored set, at a time that is the due date of some of the
\* payments, after others and before the rest
InitSweep == Stored({Null} \cup PaidDateInputs, NewDate(2024, 3, 15, 0, 0, 0))

NextSweep == UpdateOverduePayments \/ Tick

SpecSweep == InitSweep /\ [][NextSweep]_vars

\* generateMonthlyPayments on a stored set of payments of every status
NextGenerateStored ==
    \E ym \in QueryPeriods : GenerateMonthlyPayments(ym[1], ym[2])

SpecGenerateStored == InitSweep /\ [][NextGenerateStored]_vars

\* due dates around the two ends of April 2024: the last second of March,
\* the first instant of April, mid April, half a second before the end of
\* April, the first instant of May
EdgeDueDates ==
    {NewDate(2024, 2, 31, 23, 59, 59), NewDate(2024, 3, 1, 0, 0, 0),
     NewDate(2024, 3, 15, 0, 0, 0),
     [day |-> MakeDay(2024, 3, 30), ms |-> 86399500],
     NewDate(2024, 4, 1, 0, 0, 0)}

\* a payment of bill row[1], entered by hand or generated, in status row[2]
EdgePayment(id, row) ==
    [id |-> id, billId |-> row[1], amount |-> 3, status |-> row[2],
     dueDate |-> row[3], paidDate |-> Null]

EdgeKey(row) ==
    ((row[3].day * 2 + (IF row[3].ms = 0 THEN 0 ELSE 1)) * 10 + row[1]) * 10
        + (CASE row[2] = "PENDING" -> 0 [] row[2] = "PAID" -> 1 [] OTHER -> 2)

\* two active bills and up to MaxPayments payments of them
InitTwoBills ==
    /\ bills = {[id |-> 1, amount |-> 3, dueDay |-> 15, active |-> TRUE],
                [id |-> 2, amount |-> 4, dueDay |-> 15, active |-> TRUE]}
    /\ \E n \in 0 .. MaxPayments :
        \E rows \in [1 .. n -> {1, 2} \X Statuses \X EdgeDueDates] :
            /\ \A i \in 1 .. n - 1 : EdgeKey(rows[i]) <= EdgeKey(rows[i + 1])
            /\ payments = {EdgePayment(i, rows[i]) : i \in 1 .. n}
            /\ nextPaymentId = n + 1
    /\ nextBillId = 3
    /\ now = NewDate(2024, 3, 15, 0, 0, 0)
    /\ last = [op |-> "init"]

NextTwoBills == \E ym \in Periods : GenerateMonthlyPayments(ym[1], ym[2])

SpecTwoBills == InitTwoBills /\ [][NextTwoBills]_vars

\* getPaymentsByMonth(year, month): the rows in one of the orders the
\* database may return
GetPaymentsByMonth(year, month) ==
    /\ \E rows \in OrderedByDueDate(PaymentsByMonth(payments, year, month)) :
           last' = [op |-> "getPaymentsByMonth", ok |-> TRUE,
                    year |-> year, month |-> month, ret |-> rows]
    /\ UNCHANGED <<bills, payments, nextBillId, nextPaymentId, now>>

\* the month's rows read and the month generated, on payments due around
\* the two ends of April 2024
NextByMonth ==
    \/ \E ym \in QueryPeriods : GetPaymentsByMonth(ym[1], ym[2])
    \/ \E ym \in Periods : GenerateMonthlyPayments(ym[1], ym[2])

SpecByMonth == InitTwoBills /\ [][NextByMonth]_vars

NextSummary == \E ym \in QueryPeriods : GetPaymentsSummary(ym[1], ym[2])

SpecSummary == InitStored /\ [][NextSummary]_vars

NextComparison == \E ym \in QueryPeriods : GetPaymentComparison(ym[1], ym[2])

SpecComparison == InitStored /\ [][NextComparison]_vars

\* the reports and the sweep on a stored set, as time passes
NextReports ==
    \/ \E ym \in QueryPeriods : GetPaymentsSummary(ym[1], ym[2])
    \/ \E ym \in QueryPeriods : GetPaymentComparison(ym[1], ym[2])
    \/ UpdateOverduePayments
    \/ Tick

SpecReports == InitStored /\ [][NextReports]_vars

\* the two commands that ask for a month, on the bills entered so far
NextCommands ==
    \/ \E a \in Amounts, d \in DueDays : CreateBill(a, d)
    \/ \E input \in MonthYearInputs : GenerateMonthlyPaymentsCommand(input)
    \/ \E input \in MonthYearInputs : ShowMonthlySummary(input)
    \/ Tick

SpecCommands == Init /\ [][NextCommands]_vars

\* ------------------------------------- two generateMonthlyPayments runs
\* Each await of generateMonthlyPayments is one database step: findMany,
\* then findFirst and, when nothing was found, create for each bill.  A run
\* is [pc, todo, created]: the next step, the bills still to handle and the
\* ids of the payments created so far.
RunStart == [pc |-> "findMany", todo |-> <<>>, created |-> <<>>]

\* the loop moves on to the next bill, or returns
NextBill(run) ==
    [run EXCEPT !.todo = Tail(run.todo),
                !.pc = IF Tail(run.todo) = <<>> THEN "done" ELSE "findFirst"]

\* one database step of run i on the store w.ps
RunStep(w, i, year, month) ==
    LET run == w.runs[i]
    IN  CASE run.pc = "findMany" ->
               [w EXCEPT !.runs[i] =
                   [pc |-> IF ActiveBills(bills) = <<>> THEN "done"
                           ELSE "findFirst",
                    todo |-> ActiveBills(bills), created |-> <<>>]]
          [] run.pc = "findFirst" ->
               IF ExistingPayments(w.ps, Head(run.todo).id, year, month) = {}
               THEN [w EXCEPT !.runs[i] = [run EXCEPT !.pc = "create"]]
               ELSE [w EXCEPT !.runs[i] = NextBill(run)]
          [] run.pc = "create" ->
               [w EXCEPT
                   !.ps = w.ps \cup
                       {NewPayment(w.nextId, Head(run.todo).id,
                            Head(run.todo).amount,
                            GeneratedDueDate(year, month, Head(run.todo).dueDay))},
                   !.nextId = w.nextId + 1,
                   !.runs[i] = NextBill([run EXCEPT
                       !.created = Append(run.created, w.nextId)])]
          [] OTHER -> w

\* the steps taken in the order of the schedule; the turn of a run that
\* has returned is passed over
RECURSIVE RunSchedule(_, _, _, _)
RunSchedule(w, schedule, year, month) ==
    IF schedule = <<>> THEN w
    ELSE LET i == Head(schedule)
         IN  IF w.runs[i].pc = "done"
             THEN RunSchedule(w, Tail(schedule), year, month)
             ELSE RunSchedule(
                      [RunStep(w, i, year, month) EXCEPT
                          !.trace = Append(w.trace, i)],
                      Tail(schedule), year, month)

\* a run takes one findMany and at most two steps for each of two bills
MaxRunSteps == 1 + 2 * 2

\* one run took all its steps before the other took its first
Sequential(trace) ==
    ~ \E i, j, k \in 1 .. Len(trace) :
          i < j /\ j < k /\ trace[i] = trace[k] /\ trace[j] # trace[i]

\* the orders in which the event loop may resume the two runs: every
\* interleaving of MaxRunSteps turns of each, run 1 being the one that
\* starts
Schedules ==
    {s \in [1 .. 2 * MaxRunSteps -> {1, 2}] :
        /\ s[1] = 1
        /\ Cardinality({k \in 1 .. 2 * MaxRunSteps : s[k] = 1}) = MaxRunSteps}

\* two calls of generateMonthlyPayments(year, month) in flight together
GenerateMonthlyPaymentsTwice(year, month, schedule) ==
    LET w == RunSchedule([ps |-> payments, nextId |-> nextPaymentId,
                          runs |-> <<RunStart, RunStart>>, trace |-> <<>>],
                         schedule, year, month)
    IN  /\ w.nextId - 1 <= MaxPayments
        /\ payments' = w.ps
        /\ nextPaymentId' = w.nextId
        /\ last' = [op |-> "generateMonthlyPaymentsTwice", ok |-> TRUE,
                    year |-> year, month |-> month,
                    sequential |-> Sequential(w.trace),
                    ret |-> <<w.runs[1].created, w.runs[2].created>>]
        /\ UNCHANGED <<bills, nextBillId, now>>

\* one or two bills, the first with at most one payment so far
InitRace ==
    /\ \E d \in DueDays, second \in {"none", "active", "inactive"} :
           bills = {[id |-> 1, amount |-> 3, dueDay |-> d, active |-> TRUE]}
               \cup (IF second = "none" THEN {}
                     ELSE {[id |-> 2, amount |-> 4, dueDay |-> 15,
                            active |-> second = "active"]})
    /\ \/ payments = {} /\ nextPaymentId = 1
       \/ \E s \in Statuses, d \in StoredDueDates :
              /\ payments = {EdgePayment(1, <<1, s, d>>)}
              /\ nextPaymentId = 2
    /\ nextBillId = 3
    /\ now = NewDate(2024, 3, 15, 0, 0, 0)
    /\ last = [op |-> "init"]

NextRace ==
    \E ym \in Periods, schedule \in Schedules :
        GenerateMonthlyPaymentsTwice(ym[1], ym[2], schedule)

SpecRace == InitRace /\ [][NextRace]_vars

\* the comparison asked for every month of a year and for the next January,
\* on payments due around the turn of the year
RolloverDueDates ==
    {NewDate(2023, 10, 15, 0, 0, 0), NewDate(2023, 11, 15, 0, 0, 0),
     NewDate(2024, 0, 15, 0, 0, 0)}

RolloverPeriods == ({2024} \X (1 .. 12)) \cup {<<2025, 1>>}

RolloverKey(row) ==
    (row[3].day * 10 + row[1]) * 10
        + (CASE row[2] = "PENDING" -> 0 [] row[2] = "PAID" -> 1 [] OTHER -> 2)

InitRollover ==
    /\ bills = {[id |-> 1, amount |-> 3, dueDay |-> 15, active |-> TRUE]}
    /\ \E n \in 0 .. MaxPayments :
        \E rows \in [1 .. n -> Amounts \X Statuses \X RolloverDueDates] :
            /\ \A i \in 1 .. n - 1 : RolloverKey(rows[i]) <= RolloverKey(rows[i + 1])
            /\ payments = {[id |-> i, billId |-> 1, amount |-> rows[i][1],
                            status |-> rows[i][2], dueDate |-> rows[i][3],
                            paidDate |-> Null] : i \in 1 .. n}
            /\ nextPaymentId = n + 1
    /\ nextBillId = 2
    /\ now = NewDate(2024, 0, 15, 0, 0, 0)
    /\ last = [op |-> "init"]

SpecRollover ==
    InitRollover
        /\ [][\E ym \in RolloverPeriods : GetPaymentComparison(ym[1], ym[2])]_vars

\* bills created and switched, and the payments of April and of May 2024
\* generated
NextTwoMonths ==
    \/ \E a \in Amounts, d \in DueDays : CreateBill(a, d)
    \/ \E id \in BillIds : ToggleBillStatus(id)
    \/ \E ym \in QueryPeriods : GenerateMonthlyPayments(ym[1], ym[2])

SpecTwoMonths == Init /\ [][NextTwoMonths]_vars

\* ------------------------------------ a create that fails in the batch
\* (mutant) the batch in a transaction: a failure undoes its creates
RECURSIVE GenerateLoopRolledBack(_, _, _, _, _, _, _)
GenerateLoopRolledBack(billSeq, ps, nextId, created, year, month, k) ==
    IF billSeq = <<>>
    THEN [payments |-> ps, nextId |-> nextId, created |-> created,
          failed |-> FALSE]
    ELSE LET bill == Head(billSeq)
         IN  IF ExistingPayments(ps, bill.id, year, month) # {}
             THEN GenerateLoopRolledBack(Tail(billSeq), ps, nextId, created,
                                         year, month, k)
             ELSE IF Len(created) + 1 = k
             THEN [payments |->
                       {p \in ps : \A n \in 1 .. Len(created) : created[n] # p.id},
                   nextId |-> nextId, created |-> created, failed |-> TRUE,
                   failedBill |-> bill.id]
             ELSE GenerateLoopRolledBack(Tail(billSeq),
                      ps \cup {NewPayment(nextId, bill.id, bill.amount,
                                   GeneratedDueDate(year, month, bill.dueDay))},
                      nextId + 1, Append(created, nextId), year, month, k)

\* the loop when the k-th await this.createPayment(...) of the call rejects:
\* the rejection leaves the loop and the function, nothing undoes the
\* creates already awaited
RECURSIVE GenerateLoopFailing(_, _, _, _, _, _, _)
GenerateLoopFailing(billSeq, ps, nextId, created, year, month, k) ==
    IF billSeq = <<>>
    THEN [payments |-> ps, nextId |-> nextId, created |-> created,
          failed |-> FALSE]
    ELSE LET bill == Head(billSeq)
         IN  IF ExistingPayments(ps, bill.id, year, month) # {}
             THEN GenerateLoopFailing(Tail(billSeq), ps, nextId, created,
                                      year, month, k)
             ELSE IF Len(created) + 1 = k
             THEN [payments |-> ps, nextId |-> nextId, created |-> created,
                   failed |-> TRUE, failedBill |-> bill.id]
             ELSE GenerateLoopFailing(Tail(billSeq),
                      ps \cup {NewPayment(nextId, bill.id, bill.amount,
                                   GeneratedDueDate(year, month, bill.dueDay))},
                      nextId + 1, Append(created, nextId), year, month, k)

\* generateMonthlyPayments(year, month) whose k-th create fails
GenerateMonthlyPaymentsInterrupted(year, month, k) ==
    LET r == GenerateLoopFailing(ActiveBills(bills), payments, nextPaymentId,
                                 <<>>, year, month, k)
    IN  /\ r.failed
        /\ r.nextId - 1 <= MaxPayments
        /\ payments' = r.payments
        /\ nextPaymentId' = r.nextId
        /\ last' = [op |-> "generateMonthlyPayments", ok |-> FALSE,
                    year |-> year, month |-> month,
                    failedBill |-> r.failedBill, created |-> r.created]
        /\ UNCHANGED <<bills, nextBillId, now>>

\* three bills, active or not, some with their payment of April 2024
InitBatch ==
    /\ \E act \in [1 .. 3 -> BOOLEAN] :
           bills = {[id |-> i, amount |-> 3, dueDay |-> 15, active |-> act[i]] :
                       i \in 1 .. 3}
    /\ \E have \in SUBSET (1 .. 3) :
           /\ Cardinality(have) <= MaxPayments
           /\ \E ids \in [have -> 1 .. Cardinality(have)] :
                  /\ \A i, j \in have : i < j => ids[i] < ids[j]
                  /\ payments =
                         {NewPayment(ids[i], i, 3, NewDate(2024, 3, 15, 0, 0, 0)) :
                             i \in have}
           /\ nextPaymentId = Cardinality(have) + 1
    /\ nextBillId = 4
    /\ now = NewDate(2024, 3, 15, 0, 0, 0)
    /\ last = [op |-> "init"]

NextBatch ==
    \/ \E ym \in Periods : GenerateMonthlyPayments(ym[1], ym[2])
    \/ \E ym \in Periods, k \in 1 .. 3 :
           GenerateMonthlyPaymentsInterrupted(ym[1], ym[2], k)

SpecBatch == InitBatch /\ [][NextBatch]_vars

\* --------------------------------------------- a database call rejects
\* the database calls of each method, in program order, when none rejects
\* (generateMonthlyPayments, whose calls depend on the rows, is
\* GenerateLoopFailing)
ServiceCalls ==
    [createBill            |-> <<"bill.create">>,
     getAllBills           |-> <<"bill.findMany">>,
     getBillById           |-> <<"bill.findUnique">>,
     getBillByName         |-> <<"bill.findFirst">>,
     updateBill            |-> <<"bill.update">>,
     deleteBill            |-> <<"bill.delete">>,
     toggleBillStatus      |-> <<"bill.findUnique", "bill.update">>,
     createPayment         |-> <<"payment.create">>,
     getAllPayments        |-> <<"payment.findMany">>,
     getPaymentById        |-> <<"payment.findUnique">>,
     getPaymentsByMonth    |-> <<"payment.findMany">>,
     getPaymentsByStatus   |-> <<"payment.findMany">>,
     updatePayment         |-> <<"payment.update">>,
     markAsPaid            |-> <<"payment.update">>,
     deletePayment         |-> <<"payment.delete">>,
     updateOverduePayments |-> <<"payment.updateMany">>,
     getPaymentsSummary    |-> <<"payment.findMany">>,
     getPaymentComparison  |-> <<"payment.findMany", "payment.findMany",
                                 "payment.findMany">>]

\* (mutant) the rejected call issued once more and its result returned
MethodRetrying(op, k) ==
    [ok |-> TRUE,
     issued |-> Append(SubSeq(ServiceCalls[op], 1, k), ServiceCalls[op][k])]

\* the method when its k-th call rejects: `return this.prisma...` and the
\* awaits have no try/catch, so the rejection ends the method and is its
\* result; Promise.all(months.map(async ...)) of getPaymentComparison has
\* started the three summaries before any of them is awaited
MethodRejected(op, k) ==
    [ok |-> FALSE,
     issued |-> IF op = "getPaymentComparison" THEN ServiceCalls[op]
                ELSE SubSeq(ServiceCalls[op], 1, k)]

\* a method called while the database rejects its k-th call: the calls
\* before it are reads, the rejected call writes nothing
RejectedCall(op, k) ==
    /\ k \in 1 .. Len(ServiceCalls[op])
    /\ LET r == MethodRejected(op, k)
       IN  last' = [op |-> op, ok |-> r.ok, rejected |-> k, issued |-> r.issued]
    /\ UNCHANGED <<bills, payments, nextBillId, nextPaymentId, now>>

NextRejections ==
    \/ \E op \in DOMAIN ServiceCalls, k \in 1 .. 3 : RejectedCall(op, k)
    \/ \E ym \in Periods, k \in 1 .. 3 :
           GenerateMonthlyPaymentsInterrupted(ym[1], ym[2], k)

SpecRejections == InitBatch /\ [][NextRejections]_vars

\* ------------------------------------------------------ the entry point
\* the menu rounds of one interactive session
MaxRounds == 2

\* program.command(name) ... .action(async () => { await f(); ... })
Subcommands ==
    [bills_list         |-> "listBills",
     bills_add          |-> "addBill",
     bills_update       |-> "updateBill",
     bills_delete       |-> "deleteBill",
     payments_list      |-> "listPayments",
     payments_add       |-> "addPayment",
     payments_update    |-> "updatePayment",
     payments_mark_paid |-> "markPaymentAsPaid",
     payments_delete    |-> "deletePayment",
     payments_generate  |-> "generateMonthlyPayments",
     summary            |-> "showMonthlySummary",
     payments_compare   |-> "comparePayments"]

\* switch (action) of showMainMenu
MenuChoices ==
    [summary           |-> "showMonthlySummary",
     list_bills        |-> "listBills",
     add_bill          |-> "addBill",
     update_bill       |-> "updateBill",
     delete_bill       |-> "deleteBill",
     list_payments     |-> "listPayments",
     add_payment       |-> "addPayment",
     update_payment    |-> "updatePayment",
     mark_paid         |-> "markPaymentAsPaid",
     delete_payment    |-> "deletePayment",
     generate_payments |-> "generateMonthlyPayments",
     compare_payments  |-> "comparePayments"]

Call(f) == [call |-> f]
Exit(code) == [exit |-> code]
Disconnect == Call("disconnectDatabase")

\* (mutant) the action without try/catch: a throw ends the process as an
\* unhandled rejection
ActionTraceNoCleanup(f, throws) ==
    IF throws
    THEN [trace |-> <<Call(f)>>, exitCode |-> 1]
    ELSE [trace |-> <<Call(f), Disconnect>>, exitCode |-> 0]

\* try { await f(); await disconnectDatabase(); }
\* catch (error) { console.error(...); await disconnectDatabase();
\*                 process.exit(1); }
ActionTrace(f, throws) ==
    IF throws
    THEN [trace |-> <<Call(f), Call("console.error"), Disconnect, Exit(1)>>,
          exitCode |-> 1]
    ELSE [trace |-> <<Call(f), Disconnect>>, exitCode |-> 0]

\* house-duties <subcommand>: the command function returns or throws
RunSubcommand(command, throws) ==
    /\ LET r == ActionTrace(Subcommands[command], throws)
       IN  last' = [op |-> "subcommand", ok |-> ~throws, command |-> command,
                    throws |-> throws, trace |-> r.trace,
                    exitCode |-> r.exitCode]
    /\ UNCHANGED <<bills, payments, nextBillId, nextPaymentId, now>>

\* house-duties, or house-duties interactive: showMainMenu() is started
StartInteractive ==
    /\ last' = [op |-> "interactive", pc |-> "menu", rounds |-> 0,
                trace |-> <<>>]
    /\ UNCHANGED <<bills, payments, nextBillId, nextPaymentId, now>>

\* one round of showMainMenu: the menu answered with Exit:
\* console.log('Goodbye'); await disconnectDatabase(); process.exit(0)
MenuExit ==
    /\ last.op = "interactive" /\ last.pc = "menu"
    /\ last' = [last EXCEPT !.pc = "exited", !.trace = @ \o <<Disconnect, Exit(0)>>]
    /\ UNCHANGED <<bills, payments, nextBillId, nextPaymentId, now>>

\* one round of showMainMenu: a command chosen; it throws, to the catch of
\* the interactive action or of showMainMenu().catch(...), or it returns and
\* "Continue?" is answered
MenuRound(choice, throws, continueAction) ==
    /\ last.op = "interactive" /\ last.pc = "menu"
    /\ last.rounds < MaxRounds
    /\ LET f == Call(MenuChoices[choice])
       IN  last' =
             IF throws
             THEN [last EXCEPT !.pc = "exited", !.rounds = @ + 1,
                               !.trace = @ \o <<f, Call("console.error"),
                                                Disconnect, Exit(1)>>]
             ELSE IF continueAction
             THEN [last EXCEPT !.rounds = @ + 1, !.trace = Append(@, f)]
             ELSE [last EXCEPT !.pc = "exited", !.rounds = @ + 1,
                               !.trace = @ \o <<f, Disconnect, Exit(0)>>]
    /\ UNCHANGED <<bills, payments, nextBillId, nextPaymentId, now>>

NextCli ==
    \/ \E command \in DOMAIN Subcommands, throws \in BOOLEAN :
           RunSubcommand(command, throws)
    \/ StartInteractive
    \/ MenuExit
    \/ \E choice \in DOMAIN MenuChoices, throws, continueAction \in BOOLEAN :
           MenuRound(choice, throws, continueAction)

SpecCli == Init /\ [][NextCli]_vars

\* ------------------------------------------------------- calendar (claims)
CalendarYears == 2023 .. 2025

\* the calendar (year, month) a Date lies in
MonthOfDate(d) ==
    CHOOSE ym \in CalendarYears \X (1 .. 12) :
        \E dd \in 1 .. DaysInMonth(ym[1], ym[2]) :
            MakeDay(ym[1], ym[2] - 1, dd) = d.day

PaymentsInMonth(ps, billId, year, month) ==
    {p \in ps : p.billId = billId /\ MonthOfDate(p.dueDate) = <<year, month>>}

ClampedDay(year, month, dueDay) ==
    IF dueDay > DaysInMonth(year, month) THEN DaysInMonth(year, month)
    ELSE dueDay

IsGenerate(l) == l.op = "generateMonthlyPayments"
IsSweep(l) == l.op = "updateOverduePayments"

\* C1: generateMonthlyPayments(y, m) called twice in succession, nothing in
\* between: the second call leaves the payments as the first left them and
\* returns the empty list.
C1_GenerateTwiceIsIdempotent ==
    [][(/\ IsGenerate(last) /\ IsGenerate(last')
        /\ last'.year = last.year /\ last'.month = last.month)
       => (payments' = payments /\ last'.ret = <<>>)]_vars

\* C2: every payment generateMonthlyPayments(year, month) has just created is
\* due on (year, month, min(bill.dueDay, days in the month)), a day of the
\* target month.
C2_GeneratedDueDateIsClamped ==
    IsGenerate(last) =>
        \A i \in 1 .. Len(last.ret) : \A p \in payments : \A b \in bills :
            (p.id = last.ret[i] /\ b.id = p.billId) =>
                /\ p.dueDate =
                       [day |-> MakeDay(last.year, last.month - 1,
                                    ClampedDay(last.year, last.month, b.dueDay)),
                        ms  |-> 0]
                /\ MonthOfDate(p.dueDate) = <<last.year, last.month>>

\* C3: right after generateMonthlyPayments(year, month), every active bill
\* has exactly one payment due in that calendar month, when no bill had more
\* than one before the call.
C3_ExactlyOnePaymentPerActiveBill ==
    [][(/\ IsGenerate(last')
        /\ \A b \in bills :
               Cardinality(PaymentsInMonth(payments, b.id,
                               last'.year, last'.month)) <= 1)
       => \A b \in bills' :
              b.active =>
                  Cardinality(PaymentsInMonth(payments', b.id,
                                  last'.year, last'.month)) = 1]_vars

AllowedTransition(s, t) ==
    \/ s = t
    \/ s = "PENDING" /\ t \in {"PAID", "OVERDUE"}
    \/ s = "OVERDUE" /\ t = "PAID"

\* C4: in every step a payment's status stays as it is or moves PENDING to
\* PAID, PENDING to OVERDUE or OVERDUE to PAID.
C4_StatusTransitions ==
    [][\A p \in payments : \A q \in payments' :
           q.id = p.id => AllowedTransition(p.status, q.status)]_vars

\* C5: a payment has a paidDate if and only if its status is PAID.
C5_PaidDateIffPaid ==
    \A p \in payments : (p.paidDate # Null) <=> (p.status = "PAID")

StrictlyBefore(d, t) == d.day < t.day \/ (d.day = t.day /\ d.ms < t.ms)

\* C6: updateOverduePayments turns into OVERDUE exactly the PENDING payments
\* due strictly before the current time, whatever their month, and returns
\* the number of payments whose status it changed.
C6_SweepExactlyPendingPastDue ==
    [][IsSweep(last') =>
        /\ {q.id : q \in payments'} = {p.id : p \in payments}
        /\ \A p \in payments : \A q \in payments' :
               q.id = p.id =>
                   q.status = IF p.status = "PENDING"
                                  /\ StrictlyBefore(p.dueDate, now)
                              THEN "OVERDUE" ELSE p.status
        /\ last'.ret =
               Cardinality({p \in payments :
                   \E q \in payments' : q.id = p.id /\ q.status # p.status})
      ]_vars

\* a sweep has changed a payment and has left PENDING one that is due at
\* this very instant
C6_Witness ==
    /\ IsSweep(last) /\ last.ret >= 1
    /\ \E p \in payments : p.status = "PENDING" /\ p.dueDate = now
    /\ \E p \in payments : p.status = "OVERDUE" /\ StrictlyBefore(p.dueDate, now)

\* C7: updateOverduePayments leaves every PAID and every OVERDUE payment as
\* it was: same status, amount, dueDate and paidDate.
C7_SweepKeepsPaidAndOverdue ==
    [][IsSweep(last') =>
        \A p \in payments :
            p.status \in {"PAID", "OVERDUE"} => p \in payments']_vars

\* a sweep that changed some payment, with a past-due PAID payment in store
C7_Witness ==
    /\ IsSweep(last) /\ last.ret >= 1
    /\ \E p \in payments : p.status = "PAID" /\ StrictlyBefore(p.dueDate, now)

\* C9: every payment's billId names a stored bill, and right after a
\* successful deleteBill(id) no payment names that id.
C9_NoOrphanedPayments ==
    /\ \A p \in payments : \E b \in bills : b.id = p.billId
    /\ (last.op = "deleteBill" /\ last.ok) =>
           \A p \in payments : p.billId # last.id

\* a bill has just been deleted together with payments of its own
C9_Witness == last.op = "deleteBill" /\ last.ok /\ last.cascaded >= 1

\* C8: the record getPaymentsSummary returns satisfies
\* total = paid + pending + overdue.
C8_TotalIsSumOfBuckets ==
    last.op = "getPaymentsSummary" =>
        last.ret.total =
            FAdd(FAdd(last.ret.paid, last.ret.pending), last.ret.overdue)

MetricNames == {"total", "paid", "pending", "overdue"}

\* C10: for each metric, change is the newest month's value minus the middle
\* month's, percentageChange is change / middle * 100 when the middle value
\* is not 0 and null exactly when it is 0.
C10_ChangeAndPercentage ==
    last.op = "getPaymentComparison" =>
        \A k \in MetricNames :
            LET metric == last.ret.metrics[k]
                middle == last.ret.months[2][k]
                newest == last.ret.months[3][k]
            IN  /\ metric.change = FSub(newest, middle)
                /\ (metric.percentageChange = Null) <=> (middle = 0)
                /\ middle # 0 =>
                       /\ metric.percentageChange.den = middle
                       /\ metric.percentageChange.num = 100 * metric.change

\* pending sums [., 4, 3]: change -1, percentageChange -25; and a metric with
\* a zero middle month and a positive newest month: null
C10_Witness ==
    /\ last.op = "getPaymentComparison"
    /\ last.ret.months[2].pending = 4 /\ last.ret.months[3].pending = 3
    /\ last.ret.months[1].pending \notin {3, 4}
    /\ last.ret.metrics.pending.change = 0 - 1
    /\ last.ret.metrics.pending.percentageChange.num
           = (0 - 25) * last.ret.metrics.pending.percentageChange.den
    /\ \E k \in MetricNames :
           /\ last.ret.months[2][k] = 0 /\ last.ret.months[3][k] > 0
           /\ last.ret.metrics[k].percentageChange = Null
           /\ last.ret.metrics[k].change = last.ret.months[3][k]

TrendOf(change) ==
    IF Abs(change) < StableEpsilon THEN "stable"
    ELSE IF change > 0 THEN "up" ELSE "down"

\* C11 (as stated): each metric's trend is stable when |change| < 0.01,
\* otherwise up when change > 0 and down when change < 0; with middle = 0 and
\* newest = 0 the result is percentageChange null and trend stable, and with
\* middle = 0 and newest > 0 it is percentageChange null and trend up.
C11_TrendUpFromZeroMiddle ==
    last.op = "getPaymentComparison" =>
        \A k \in MetricNames :
            LET metric == last.ret.metrics[k]
                middle == last.ret.months[2][k]
                newest == last.ret.months[3][k]
            IN  /\ metric.trend = TrendOf(metric.change)
                /\ (middle = 0 /\ newest = 0) =>
                       (metric.percentageChange = Null /\ metric.trend = "stable")
                /\ (middle = 0 /\ newest > 0) =>
                       (metric.percentageChange = Null /\ metric.trend = "up")

\* C11 (amended): each metric's trend is stable when |change| < 0.01,
\* otherwise up when change > 0 and down when change < 0; with middle = 0 the
\* percentageChange is null, and the trend is stable when newest < 0.01 and up
\* when newest >= 0.01.
C11_TrendByEpsilon ==
    last.op = "getPaymentComparison" =>
        \A k \in MetricNames :
            LET metric == last.ret.metrics[k]
                middle == last.ret.months[2][k]
                newest == last.ret.months[3][k]
            IN  /\ metric.trend = TrendOf(metric.change)
                /\ (middle = 0 /\ newest < StableEpsilon) =>
                       (metric.percentageChange = Null /\ metric.trend = "stable")
                /\ (middle = 0 /\ newest >= StableEpsilon) =>
                       (metric.percentageChange = Null /\ metric.trend = "up")

\* one comparison with a metric going from 0 to 0.0075 (stable), one going
\* from 0 to 0.01 or more (up) and one staying at 0
C11_Witness ==
    /\ last.op = "getPaymentComparison"
    /\ \E k \in MetricNames :
           /\ last.ret.months[2][k] = 0 /\ last.ret.months[3][k] = 3
           /\ last.ret.metrics[k].trend = "stable"
    /\ \E k \in MetricNames :
           /\ last.ret.months[2][k] = 0 /\ last.ret.months[3][k] >= StableEpsilon
           /\ last.ret.metrics[k].trend = "up"
    /\ \E k \in MetricNames :
           /\ last.ret.months[2][k] = 0 /\ last.ret.months[3][k] = 0
           /\ last.ret.metrics[k].trend = "stable"

\* the payments of ps that the call just made returned
Returned(ps, l) == {p \in ps : \E i \in 1 .. Len(l.ret) : l.ret[i] = p.id}

\* C12: a payment generateMonthlyPayments creates is PENDING, has no paidDate
\* and has the amount its bill has at that moment, and an updateBill leaves
\* every payment as it was.
C12_GeneratedPaymentSnapshotsAmount ==
    [][/\ IsGenerate(last') =>
            \A q \in Returned(payments', last') :
                /\ q.status = "PENDING"
                /\ q.paidDate = Null
                /\ \E b \in bills : b.id = q.billId /\ q.amount = b.amount
       /\ last'.op = "updateBill" => payments' = payments]_vars

\* an updateBill has just changed the amount of a bill that has a generated
\* payment, which keeps the old amount
C12_Witness ==
    /\ last.op = "updateBill" /\ last.ok
    /\ \E b \in bills : \E p \in payments :
           p.billId = b.id /\ p.amount # b.amount /\ p.status = "PENDING"

\* C13: generateMonthlyPayments creates no payment for a bill that is
\* inactive at the call, and toggleBillStatus or an updateBill that
\* deactivates a bill leaves every payment as it was.
C13_InactiveBillsGetNoPayment ==
    [][/\ IsGenerate(last') =>
            \A q \in Returned(payments', last') :
                \A b \in bills : b.id = q.billId => b.active
       /\ (\E b \in bills : \E c \in bills' :
               c.id = b.id /\ b.active /\ ~c.active) => payments' = payments
      ]_vars

\* a generateMonthlyPayments has just passed over an inactive bill that has
\* no payment in the month's window, and the bill still has the payment it
\* had when it was deactivated
C13_Witness ==
    /\ IsGenerate(last)
    /\ \E b \in bills :
           /\ ~b.active
           /\ ExistingPayments(payments, b.id, last.year, last.month) = {}
           /\ \E p \in payments : p.billId = b.id

\* C14: generateMonthlyPayments leaves every bill and every payment that
\* existed before the call as it was, and inserts exactly the payments it
\* returns.
C14_GenerateOnlyInserts ==
    [][IsGenerate(last') =>
        /\ bills' = bills
        /\ payments \subseteq payments'
        /\ payments' \ payments = Returned(payments', last')
        /\ Cardinality(payments' \ payments) = Len(last'.ret)]_vars

\* a generateMonthlyPayments that returned a payment and left a PAID payment
\* in store
C14_Witness ==
    /\ IsGenerate(last) /\ Len(last.ret) >= 1
    /\ \E p \in payments :
           /\ p.status = "PAID" /\ p.paidDate # Null
           /\ \A i \in 1 .. Len(last.ret) : last.ret[i] # p.id

\* d is a day of the calendar month (year, month), month in 1 .. 12
InMonth(d, year, month) ==
    /\ MakeDay(year, month - 1, 1) <= d.day
    /\ d.day < MakeDay(year, month - 1, 1) + DaysInMonth(year, month)

IsQuery(l) == l.op \in {"getPaymentsSummary", "getPaymentComparison"}

\* C15: getPaymentsSummary and getPaymentComparison leave every bill and
\* payment as it was, and a summary counts every PENDING payment of its month
\* in the pending bucket, past due or not: nothing moves to overdue by asking.
C15_QueriesAreReadOnly ==
    [][IsQuery(last') =>
        /\ bills' = bills /\ payments' = payments
        /\ nextBillId' = nextBillId /\ nextPaymentId' = nextPaymentId
        /\ last'.op = "getPaymentsSummary" =>
               LET ofMonth == {p \in payments :
                       InMonth(p.dueDate, last'.year, last'.month)}
               IN  /\ \A p \in ofMonth :
                          p.status = "PENDING" => last'.ret.pending >= p.amount
                   /\ (\A p \in ofMonth : p.status # "OVERDUE") =>
                          last'.ret.overdue = 0]_vars

\* a summary that reports a past-due PENDING payment as pending and nothing
\* as overdue, the payment still PENDING
C15_Witness ==
    /\ last.op = "getPaymentsSummary"
    /\ last.ret.pending > 0 /\ last.ret.overdue = 0
    /\ \E p \in payments :
           /\ p.status = "PENDING" /\ StrictlyBefore(p.dueDate, now)
           /\ InMonth(p.dueDate, last.year, last.month)

IsShown(l) == l.op = "showMonthlySummary" /\ l.called

\* C16: in the summary the monthly-summary command displays, no payment due
\* before the time of the command's sweep is counted as pending: the rows it
\* shows that are due before that time are not PENDING, and the pending sum
\* is 0 when every row shown is due before it.
C16_SummaryAfterSweep ==
    IsShown(last) =>
        /\ \A p \in last.shown :
               StrictlyBefore(p.dueDate, last.sweptAt) => p.status # "PENDING"
        /\ (\A p \in last.shown : StrictlyBefore(p.dueDate, last.sweptAt)) =>
               last.ret.pending = 0
        /\ \A p \in payments :
               StrictlyBefore(p.dueDate, last.sweptAt) => p.status # "PENDING"

\* the command has shown a month whose payment, PENDING until then and due
\* before the sweep, is counted as overdue
C16_Witness ==
    /\ IsShown(last)
    /\ last.ret.overdue > 0 /\ last.ret.pending = 0
    /\ \E p \in last.shown :
           p.status = "OVERDUE" /\ StrictlyBefore(p.dueDate, last.sweptAt)

\* the exact sum of the amounts of a set of payments
RECURSIVE SumAmounts(_)
SumAmounts(S) ==
    IF S = {} THEN 0
    ELSE LET p == CHOOSE x \in S : TRUE IN p.amount + SumAmounts(S \ {p})

\* C17: for every period, a summary taken after updateOverduePayments has
\* the total and paid sums of one taken before it, and its pending sum is
\* lower by exactly what its overdue sum is higher by: the summed amounts of
\* the period's PENDING payments due before the sweep time.
C17_SweepMovesPendingToOverdue ==
    [][IsSweep(last') =>
        \A ym \in QueryPeriods :
            \A before \in PaymentsSummaries(payments, ym[1], ym[2]) :
                \A after \in PaymentsSummaries(payments', ym[1], ym[2]) :
                    LET moved == SumAmounts({p \in payments :
                                     /\ InMonth(p.dueDate, ym[1], ym[2])
                                     /\ p.status = "PENDING"
                                     /\ StrictlyBefore(p.dueDate, now)})
                    IN  /\ after.total = before.total
                        /\ after.paid = before.paid
                        /\ before.pending - after.pending = moved
                        /\ after.overdue - before.overdue = moved]_vars

\* C18: every stored bill has dueDay in 1..31 and amount > 0, whatever was
\* answered to the add-bill and update-bill commands.
C18_StoredBillsAreValid ==
    \A b \in bills : b.dueDay \in 1 .. 31 /\ b.amount > 0

\* an update-bill command whose answer was refused, the bill still stored
\* with the first and the last day of the range reached
C18_Witness ==
    /\ last.op = "updateBillCommand" /\ ~last.ok
    /\ \E b \in bills : b.dueDay \in {1, 31}

\* C19: the generate-payments and monthly-summary commands call
\* generateMonthlyPayments and getPaymentsSummary with a month in 1..12 only.
C19_CommandsPassMonthInRange ==
    (last.op \in {"generateMonthlyPaymentsCommand", "showMonthlySummary"}
        /\ last.called) => last.month \in 1 .. 12

ByBillId == {"toggleBillStatus", "updateBill", "deleteBill", "createPayment"}
ByPaymentId == {"updatePayment", "markAsPaid", "deletePayment"}

\* C20: toggleBillStatus, updateBill, deleteBill and createPayment given the
\* id of no stored bill, and updatePayment, markAsPaid and deletePayment
\* given the id of no stored payment, fail and leave every bill and payment
\* as it was.
C20_UnknownIdFails ==
    [][(\/ last'.op \in ByBillId /\ \A b \in bills : b.id # last'.id
        \/ last'.op \in ByPaymentId /\ \A p \in payments : p.id # last'.id)
       => (~last'.ok /\ bills' = bills /\ payments' = payments)]_vars

\* an operation on the id of no stored payment has just failed, a bill and
\* another payment being in store
C20_Witness ==
    /\ last.op \in ByPaymentId /\ ~last.ok
    /\ \A p \in payments : p.id # last.id
    /\ payments # {} /\ bills # {}

\* the reads that give valid JSON, each with the version the file holds
HeldVersion(read) ==
    CASE read = [text |-> NameAndVersion] -> Str("1.0.0")
      [] read = [text |-> VersionOnly] -> Str("2.3.4")
      [] read = [text |-> NoVersion] -> Undefined
      [] read = [text |-> NullVersion] -> Null
      [] read = [text |-> EmptyVersion] -> Str("")
      [] read = [text |-> EmptyObject] -> Undefined
      [] read = [text |-> NumberVersion] -> Num(1)
      [] read = [text |-> ArrayVersion] -> Arr(<<1, 0, 0>>)
      [] OTHER -> Str("1.0.0")

\* C21: getVersion returns "1.0.0" when the read throws or the text is not
\* valid JSON and the version the file holds otherwise (undefined, null and
\* "" included); it returns normally, and every call reads the file again.
C21_GetVersionFallback ==
    [][last'.op = "getVersion" =>
        /\ last'.ok
        /\ last'.ret = HeldVersion(last'.read)
        /\ last'.reads = ReadsSoFar(last) + 1]_vars

\* a second or later call has returned the null version the file holds now
C21_Witness ==
    /\ last.op = "getVersion" /\ last.reads >= 2
    /\ last.read = [text |-> NullVersion] /\ last.ret = Null

\* C22: generateMonthlyPayments(year, month) succeeds, returns no payment
\* for a bill that has a payment due in [first day of the month, first day
\* of the next month), whatever its status, and returns exactly one for each
\* active bill that has none, whatever the other bills have.
C22_ExistingPaymentSuppressesOwnBillOnly ==
    [][IsGenerate(last') =>
        /\ last'.ok
        /\ \A b \in bills :
               LET has == \E p \in payments :
                              /\ p.billId = b.id
                              /\ InMonth(p.dueDate, last'.year, last'.month)
                   new == {q \in Returned(payments', last') : q.billId = b.id}
               IN  /\ has => new = {}
                   /\ (b.active /\ ~has) => Cardinality(new) = 1]_vars

\* the call has passed over a bill whose payment of the month is PAID or
\* OVERDUE and has created the payment of the other bill
C22_Witness ==
    /\ IsGenerate(last) /\ Len(last.ret) = 1
    /\ \E p \in payments : \E q \in Returned(payments, last) :
           /\ p.billId # q.billId
           /\ p.status \in {"PAID", "OVERDUE"}
           /\ InMonth(p.dueDate, last.year, last.month)
           /\ InMonth(q.dueDate, last.year, last.month)

IsTwice(l) == l.op = "generateMonthlyPaymentsTwice"

\* both runs have inserted a payment of bill b due in the month they were
\* called for
BothInserted(l, ps, b) ==
    \A i \in {1, 2} :
        \E q \in ps :
            /\ \E n \in 1 .. Len(l.ret[i]) : l.ret[i][n] = q.id
            /\ q.billId = b.id
            /\ InMonth(q.dueDate, l.year, l.month)

\* C23: two generateMonthlyPayments(year, month) runs that execute one after
\* the other never both insert a payment of the same bill due in that month;
\* runs whose database steps interleave can (the witness).
C23_SequentialRunsInsertOnce ==
    (IsTwice(last) /\ last.sequential) =>
        \A b \in bills : ~BothInserted(last, payments, b)

\* both runs passed the existence check before either inserted, and the
\* bill has two payments in the month
C23_Witness ==
    /\ IsTwice(last) /\ ~last.sequential
    /\ \E b \in bills :
           /\ BothInserted(last, payments, b)
           /\ Cardinality({p \in payments :
                  p.billId = b.id /\ InMonth(p.dueDate, last.year, last.month)}) = 2

\* C24: when the k-th create of generateMonthlyPayments fails, the call
\* fails; the payments it created for the earlier bills of the batch stay,
\* every payment that existed stays, and the failing bill and the bills
\* after it get no payment.
C24_FailureKeepsEarlierCreates ==
    [][(IsGenerate(last') /\ ~last'.ok) =>
        LET new == payments' \ payments
        IN  /\ payments \subseteq payments'
            /\ new = {q \in payments' :
                          \E n \in 1 .. Len(last'.created) :
                              last'.created[n] = q.id}
            /\ \A q \in new : q.billId < last'.failedBill
            /\ \A b \in bills :
                   (/\ b.active /\ b.id < last'.failedBill
                    /\ ~ \E p \in payments :
                           /\ p.billId = b.id
                           /\ InMonth(p.dueDate, last'.year, last'.month))
                   => Cardinality({q \in new : q.billId = b.id}) = 1]_vars

\* the create for the second of three active bills has failed: the first
\* bill's payment is stored, the second and the third bill have none
C24_Witness ==
    /\ IsGenerate(last) /\ ~last.ok
    /\ last.failedBill = 2 /\ Len(last.created) = 1
    /\ \A b \in bills : b.active
    /\ {p.billId : p \in payments} = {1}

IsByMonth(l) == l.op = "getPaymentsByMonth"

\* C25: getPaymentsByMonth(year, month) returns exactly the payments whose
\* dueDate is on a day of that calendar month, whatever the time of day.
C25_ByMonthSelectsCalendarMonth ==
    IsByMonth(last) =>
        {last.ret[i] : i \in DOMAIN last.ret} =
            {p \in payments : InMonth(p.dueDate, last.year, last.month)}

\* C30: a payment is inside the window of the generator's existence check,
\* [first day of the month, first day of the next month), exactly when
\* getPaymentsByMonth of that month returns it.
C30_GeneratorWindowIsByMonth ==
    IsByMonth(last) =>
        \A p \in payments :
            (/\ DateGte(p.dueDate, WindowStart(last.year, last.month))
             /\ DateLt(p.dueDate, WindowEnd(last.year, last.month)))
            <=> \E i \in DOMAIN last.ret : last.ret[i] = p

\* the calendar month just before (year, month)
MonthBefore(ym) ==
    IF ym.month = 1 THEN [year |-> ym.year - 1, month |-> 12]
    ELSE [year |-> ym.year, month |-> ym.month - 1]

PeriodOf(s) == [year |-> s.year, month |-> s.month]

\* C26: getPaymentComparison(year, month) reports three periods, oldest
\* first: the target month last, each of the other two the calendar month
\* just before the next one (December of the year before when the next one
\* is January); each period carries a summary of its own month and each
\* metric's values[i] is that sum of months[i].
C26_ThreePeriodsOldestFirst ==
    last.op = "getPaymentComparison" =>
        LET months == last.ret.months
        IN  /\ Len(months) = 3
            /\ PeriodOf(months[3]) = [year |-> last.year, month |-> last.month]
            /\ \A i \in 1 .. 2 :
                   PeriodOf(months[i]) = MonthBefore(PeriodOf(months[i + 1]))
            /\ \A i \in 1 .. 3 :
                   /\ months[i].month \in 1 .. 12
                   /\ \E sm \in PaymentsSummaries(payments, months[i].year,
                                                   months[i].month) :
                          \A k \in MetricNames : months[i][k] = sm[k]
                   /\ \A k \in MetricNames :
                          last.ret.metrics[k].values[i] = months[i][k]

\* the comparison of a January: November and December of the year before
\* come first, each with payments of its own
C26_Witness ==
    /\ last.op = "getPaymentComparison"
    /\ last.year = 2024 /\ last.month = 1
    /\ PeriodOf(last.ret.months[1]) = [year |-> 2023, month |-> 11]
    /\ PeriodOf(last.ret.months[2]) = [year |-> 2023, month |-> 12]
    /\ last.ret.months[1].total > 0
    /\ last.ret.months[2].total > last.ret.months[1].total
    /\ last.ret.metrics.total.values[2] = last.ret.months[2].total

\* C27: when a database call of a BillService or PaymentService method
\* rejects, the method ends as a failure, the rejected call has been issued
\* once and no call of the method is issued twice, and nothing is written
\* by the rejected call.
C27_RejectionReachesCaller ==
    [][/\ ("rejected" \in DOMAIN last') =>
            /\ ~last'.ok
            /\ Len(last'.issued) <= Len(ServiceCalls[last'.op])
            /\ last'.rejected <= Len(last'.issued)
            /\ \A i \in 1 .. Len(last'.issued) :
                   last'.issued[i] = ServiceCalls[last'.op][i]
            /\ bills' = bills /\ payments' = payments
       /\ ("failedBill" \in DOMAIN last') =>
            /\ ~last'.ok
            /\ ~ \E q \in payments' \ payments : q.billId = last'.failedBill]_vars

\* toggleBillStatus has read the bill and its update has been rejected
C27_Witness ==
    /\ last.op = "toggleBillStatus" /\ ~last.ok
    /\ last.rejected = 2
    /\ last.issued = <<"bill.findUnique", "bill.update">>

\* e1 is in the trace and e2 is in it at a later position
Later(trace, e1, e2) ==
    \E i, j \in 1 .. Len(trace) : i < j /\ trace[i] = e1 /\ trace[j] = e2

\* C28: in every subcommand action disconnectDatabase is called after the
\* command function, whether it returned or threw, and after a throw the
\* process then exits with code 1; in interactive mode every exit with
\* code 0 comes after a call of disconnectDatabase.
C28_DisconnectBeforeExit ==
    /\ last.op = "subcommand" =>
           /\ Later(last.trace, Call(Subcommands[last.command]), Disconnect)
           /\ last.throws =>
                  /\ Later(last.trace, Disconnect, Exit(1))
                  /\ last.exitCode = 1
           /\ ~last.throws => last.exitCode = 0
    /\ last.op = "interactive" =>
           \A e \in 1 .. Len(last.trace) :
               last.trace[e] = Exit(0) =>
                   /\ e > 1 /\ last.trace[e - 1] = Disconnect
                   /\ e = Len(last.trace)

\* payments:generate has thrown and the process has left with code 1
C28_Witness ==
    /\ last.op = "subcommand" /\ last.command = "payments_generate"
    /\ last.throws /\ last.exitCode = 1
    /\ last.trace[Len(last.trace)] = Exit(1)

\* an interactive session has run two commands and left with code 0
C28_WitnessInteractive ==
    /\ last.op = "interactive" /\ last.pc = "exited" /\ last.rounds = 2
    /\ last.trace[Len(last.trace)] = Exit(0)

\* C29: when generateMonthlyPayments(y, m) is followed by
\* generateMonthlyPayments of the next calendar month, every active bill then
\* has a payment due in month m and a payment due in the month after it.
C29_ConsecutiveMonthsBothCovered ==
    [][(/\ IsGenerate(last) /\ last.ok
        /\ IsGenerate(last') /\ last'.ok
        /\ [year |-> last.year, month |-> last.month] =
               MonthBefore([year |-> last'.year, month |-> last'.month]))
       => \A b \in bills' :
              b.active =>
                  /\ \E p \in payments' :
                         /\ p.billId = b.id
                         /\ InMonth(p.dueDate, last.year, last.month)
                  /\ \E p \in payments' :
                         /\ p.billId = b.id
                         /\ InMonth(p.dueDate, last'.year, last'.month)]_vars
====
